---- MODULE Spec2Model ----
(***************************************************************************)
(* Model of the job orchestration engine of DiffServer:                    *)
(*   src/ai_picture_processor.py  AIPictureProcessor (dispatcher, callback *)
(*                                handler, registries, admission semaphore)*)
(*   src/ai_client.py             AIClient (remote task service client)    *)
(*   src/image_utils.py           crop_patches_aabb_from_paths, save_image *)
(*   src/app.py                   the three entry points that reach it     *)
(*                                                                         *)
(* The model follows what the Python text does when it is run, including   *)
(* the exceptions its statements raise:                                    *)
(*   - AIClient.run_task reads the undefined name node_info (NameError),   *)
(*   - TaskMeta(...) is called without job_id (run_job) and with the       *)
(*     unknown keyword part_id (run_batch_job): TypeError,                 *)
(*   - on_callback submits to self.callback_exec, an attribute that is     *)
(*     never set (AttributeError),                                         *)
(*   - AIClient.download_from_callback reads self.timeout, never set       *)
(*     (AttributeError), after which `piece` is unbound.                   *)
(*                                                                         *)
(* Specifications:                                                         *)
(*   Spec      the code as written. _run_callback is reachable only by a   *)
(*             direct call (on_callback raises before handing it over), so *)
(*             the callback pool's work is modelled as such a call with    *)
(*             the TaskMeta of a task the remote service has created.      *)
(*   SpecStub  Spec plus the behaviours in which the download and the save *)
(*             succeed (the two I/O collaborators replaced by stubs), so   *)
(*             that the aggregation part of _run_callback runs. Every      *)
(*             behaviour of Spec is a behaviour of SpecStub: a safety      *)
(*             property of SpecStub holds of the code; a violation is      *)
(*             taken as the code's only when found under Spec.             *)
(*   SpecFair  what the routes of app.py set off (submissions and          *)
(*             on_callback), with weak fairness of the submit_pool         *)
(*             threads: the specification of the liveness properties.      *)
(*   SpecLocks the lock protocol: each handler's `with` blocks and         *)
(*             semaphore calls in source order, on concurrent threads.     *)
(*   SpecCrop  crop_patches_aabb_from_paths by itself, over every config   *)
(*             of a bounded family.                                        *)
(***************************************************************************)
EXTENDS Integers, Sequences, FiniteSets, TLC

(* ---------------------------- bounds ---------------------------------- *)
\* regions in one config handed to the patch extractor by itself
MaxRegions == 2
\* threads followed through the lock protocol
MaxLockThreads == 2
\* capacity of inflight_sem (max_inflight; the constructor's default is 30)
MaxInflight == 1
\* threads of submit_pool (submit_workers; default 8)
SubmitWorkers == 2
\* threads of callback_pool (callback_workers; default 8)
CallbackWorkers == 2
\* submissions (start_job / start_batch_job calls) in one run
MaxSubmits == 2
\* remote tasks the service creates in one run
MaxTasks == 1

VARIABLES
    sem,          \* inflight_sem._value
    released,     \* self._released
    task_map,     \* self.task_map: task id -> TaskMeta
    jobs,         \* keys of self.jobs (the job registry)
    tracker,      \* the JobTracker objects ever allocated: job id -> fields
    created,      \* remote service: task id -> [job, part] of created tasks
    hook,         \* job id -> number of _on_job_complete invocations
    future,       \* submit_pool futures: job id -> [kind, state]
    pc,           \* submit worker -> position
    wjob,         \* submit worker -> local job_id
    wpatches,     \* submit worker -> local patches (run_batch_job)
    wtask,        \* submit worker -> local task / task_id (0: none)
    relCalls,     \* task id -> release() calls made by on_callback for it
    cbLast,       \* how the last on_callback invocation ended
    redelivered,  \* task ids on_callback found in _released already
    cpc,          \* callback worker -> position in _run_callback
    cmeta,        \* callback worker -> local meta
    cpay,         \* callback worker -> shape of its payload
    downloaded,   \* task ids download_from_callback was called for
    deduped,      \* task ids _run_callback found in parts_seen already
    lock,         \* the thread inside `with self._lock` (0: none)
    tracker_lock, \* the thread inside `with tracker.lock` (0: none)
    lth,          \* thread -> the lock and semaphore operations ahead of it
    config,       \* the regions crop_patches_aabb_from_paths is called with
    patches       \* what crop_patches_aabb_from_paths returned for config

vars == <<sem, released, task_map, jobs, tracker, created, hook, future,
          pc, wjob, wpatches, wtask, relCalls, cbLast, redelivered,
          cpc, cmeta, cpay, downloaded, deduped,
          lock, tracker_lock, lth, config, patches>>

subVars == <<pc, wjob, wpatches, wtask>>
cbVars  == <<cpc, cmeta, cpay, downloaded, deduped>>
hcVars  == <<relCalls, cbLast, redelivered>>
\* the registries, futures and thread positions of the orchestration
engineVars == <<released, task_map, jobs, tracker, created, hook, future,
                subVars, hcVars, cbVars>>
\* the lock protocol seen by itself
lockVars == <<lock, tracker_lock, lth>>
\* the patch extractor seen by itself
cropVars == <<config, patches>>

Workers   == 1..SubmitWorkers
CbWorkers == 1..CallbackWorkers
TaskIds   == 1..MaxTasks
\* payload.get("taskId") or "": the empty task id
EmptyTask == 0
\* a task id the remote service never issued (unknown callback)
StrayTask == MaxTasks + 1
\* the task ids a callback payload may carry
CallbackIds == 0..(MaxTasks + 1)
NoJob == 0
LockThreads == 1..MaxLockThreads

(* ------------------------ Patch Extractor ------------------------------ *)
\* test image: H, W = img.shape[:2]
ImgW == 4
ImgH == 4
\* normalized coordinates are k / Denom
Denom == 4

FloorDiv(a, b) == a \div b
CeilDiv(a, b)  == -((-a) \div b)
Max2(a, b) == IF a >= b THEN a ELSE b
Min2(a, b) == IF a <= b THEN a ELSE b

RECURSIVE SeqMin(_), SeqMax(_)
SeqMin(s) == IF Len(s) = 1 THEN s[1] ELSE Min2(s[1], SeqMin(Tail(s)))
SeqMax(s) == IF Len(s) = 1 THEN s[1] ELSE Max2(s[1], SeqMax(Tail(s)))

\* _norm_points_to_pixels: x = x_norm*(W-1); y = y_norm*(H-1) for origin
\* "top-left", (1 - y_norm)*(H-1) for "bottom-left"; kept as numerators
\* over Denom
NormPointsToPixels(points, origin) ==
    [i \in 1..Len(points) |->
        [x |-> points[i].x * (ImgW - 1),
         y |-> IF origin = "bottom-left"
               THEN (Denom - points[i].y) * (ImgH - 1)
               ELSE points[i].y * (ImgH - 1)]]

\* BBox without max(0, .) and min(W, .), min(H, .)
BBox_NoClamp(points, origin) ==
    LET quad == NormPointsToPixels(points, origin)
        xs == [i \in 1..Len(quad) |-> quad[i].x]
        ys == [i \in 1..Len(quad) |-> quad[i].y]
    IN  [x_min |-> FloorDiv(SeqMin(xs), Denom),
         x_max |-> CeilDiv(SeqMax(xs), Denom),
         y_min |-> FloorDiv(SeqMin(ys), Denom),
         y_max |-> CeilDiv(SeqMax(ys), Denom)]

\* bbox of one region: floor(min) / ceil(max), clamped to [0,W] x [0,H]
BBox(points, origin) ==
    LET quad == NormPointsToPixels(points, origin)
        xs == [i \in 1..Len(quad) |-> quad[i].x]
        ys == [i \in 1..Len(quad) |-> quad[i].y]
    IN  [x_min |-> Max2(0, FloorDiv(SeqMin(xs), Denom)),
         x_max |-> Min2(ImgW, CeilDiv(SeqMax(xs), Denom)),
         y_min |-> Max2(0, FloorDiv(SeqMin(ys), Denom)),
         y_max |-> Min2(ImgH, CeilDiv(SeqMax(ys), Denom))]

\* str(n) for n >= 0: the decimal digits, most significant first
DigitChars == <<"0", "1", "2", "3", "4", "5", "6", "7", "8", "9">>
RECURSIVE Str(_)
Str(n) ==
    IF n < 10 THEN <<DigitChars[n + 1]>>
    ELSE Str(n \div 10) \o <<DigitChars[(n % 10) + 1]>>

\* `x_max <= x_min or y_max <= y_min`: nothing to cut out
Degenerate(b) == b.x_max <= b.x_min \/ b.y_max <= b.y_min

\* the loop of crop_patches_aabb_from_paths over diffs[from..]:
\* part_id is str of the index in the original list (enumerate), skips
\* included. cv2.imencode(".png", patch) of a non-empty patch is taken to
\* succeed.
RECURSIVE CropFrom(_, _, _)
CropFrom(diffs, idx, origin) ==
    IF idx > Len(diffs) THEN <<>>
    ELSE LET pts == diffs[idx]
             rest == CropFrom(diffs, idx + 1, origin)
         IN  IF Len(pts) < 4 THEN rest
             ELSE LET b == BBox(pts, origin)
                  IN  IF Degenerate(b) THEN rest
                      ELSE <<[part_id |-> Str(idx - 1), bbox |-> b]>> \o rest

crop_patches_aabb_from_paths(diffs, origin) == CropFrom(diffs, 1, origin)

Pt(a, b) == [x |-> a, y |-> b]
\* a region of positive area
RegionA == <<Pt(0, 0), Pt(Denom \div 2, 0), Pt(Denom \div 2, Denom \div 2),
             Pt(0, Denom \div 2)>>
RegionB == <<Pt(Denom \div 2, Denom \div 2), Pt(Denom, Denom \div 2),
             Pt(Denom, Denom), Pt(Denom \div 2, Denom)>>
\* all points at x = 1.0, one pixel column: zero width after floor/ceil
RegionFlat == <<Pt(Denom, 0), Pt(Denom, Denom), Pt(Denom, 0), Pt(Denom, Denom)>>
\* fewer than 4 points
RegionShort == <<Pt(0, 0), Pt(Denom, 0), Pt(Denom, Denom)>>

\* the region configs ("differences" arrays) a batch submission may carry
Configs == { <<RegionFlat>>,
             <<RegionA, RegionShort, RegionB>> }

(* --------------------------- registries -------------------------------- *)
\* JobTracker(expected=expected): done = 0, parts_seen = set()
JobTracker(expected) == [expected |-> expected, done |-> 0, parts_seen |-> {}]

\* uuid4().hex: an id no tracker has had
FreshJob == Cardinality(DOMAIN tracker) + 1

\* BoundedSemaphore.release(): ValueError when the value is at its bound;
\* every call site swallows it (try: release() / except Exception: pass)
SemRelease(v) == IF v < MaxInflight THEN v + 1 ELSE v

\* no TaskMeta at hand
NoMeta == [task_id |-> EmptyTask, job_id |-> NoJob]

\* a pool hands new work to an idle thread; its threads are interchangeable,
\* so the idle thread of least index takes it
TakesWork(p, w) == p[w] = "idle" /\ \A v \in DOMAIN p : v < w => p[v] /= "idle"

\* the state __init__ leaves
EngineInit ==
    /\ sem = MaxInflight
    /\ released = {}
    /\ task_map = <<>>
    /\ jobs = {}
    /\ tracker = <<>>
    /\ created = <<>>
    /\ hook = <<>>
    /\ future = <<>>
    /\ pc = [w \in Workers |-> "idle"]
    /\ wjob = [w \in Workers |-> NoJob]
    /\ wpatches = [w \in Workers |-> <<>>]
    /\ wtask = [w \in Workers |-> 0]
    /\ relCalls = [t \in CallbackIds |-> 0]
    /\ cbLast = "none"
    /\ redelivered = {}
    /\ cpc = [c \in CbWorkers |-> "idle"]
    /\ cmeta = [c \in CbWorkers |-> NoMeta]
    /\ cpay = [c \in CbWorkers |-> "none"]
    /\ downloaded = {}
    /\ deduped = {}
    /\ lock = 0
    /\ tracker_lock = 0
    /\ lth = [th \in LockThreads |-> <<>>]

\* no call of the patch extractor is followed
NoConfig == [diffs |-> <<>>, origin |-> "top-left"]
NotCalled == [called |-> FALSE, out |-> <<>>]

Init ==
    /\ EngineInit
    /\ config = NoConfig
    /\ patches = NotCalled


(* -------------------- Dispatcher: run_job ------------------------------ *)
\* _start_tracker(expected) for the fresh id j, under self._lock
StartTracker(j, expected) ==
    /\ tracker' = tracker @@ (j :> JobTracker(expected))
    /\ jobs' = jobs \cup {j}
    /\ hook' = hook @@ (j :> 0)

CanSubmit == Cardinality(DOMAIN future) < MaxSubmits

\* start_job -> submit_pool runs run_job: job_id = _start_tracker(expected=1)
StartJob(w) ==
    /\ TakesWork(pc, w)
    /\ CanSubmit
    /\ LET j == FreshJob
       IN  /\ StartTracker(j, 1)
           /\ future' = future @@ (j :> [kind |-> "single", state |-> "running"])
           /\ wjob' = [wjob EXCEPT ![w] = j]
    /\ pc' = [pc EXCEPT ![w] = "rj_acquire"]
    /\ UNCHANGED <<sem, released, task_map, created, wpatches, wtask>>
    /\ UNCHANGED hcVars /\ UNCHANGED cbVars
    /\ UNCHANGED lockVars /\ UNCHANGED cropVars

\* self.inflight_sem.acquire(): blocks while the value is 0
RjAcquire(w) ==
    /\ pc[w] = "rj_acquire"
    /\ sem > 0
    /\ sem' = sem - 1
    /\ pc' = [pc EXCEPT ![w] = "rj_call"]
    /\ UNCHANGED <<released, task_map, jobs, tracker, created, hook, future,
                   wjob, wpatches, wtask>>
    /\ UNCHANGED hcVars /\ UNCHANGED cbVars
    /\ UNCHANGED lockVars /\ UNCHANGED cropVars

\* self.ai.run_task(img): the upload fails, or it succeeds and run_task then
\* reads the undefined name node_info before _create_task is called: it
\* raises on every path and no remote task is created
RjRunTask(w) ==
    /\ pc[w] = "rj_call"
    /\ pc' = [pc EXCEPT ![w] = "rj_except"]
    /\ UNCHANGED <<sem, released, task_map, jobs, tracker, created, hook, future,
                   wjob, wpatches, wtask>>
    /\ UNCHANGED hcVars /\ UNCHANGED cbVars
    /\ UNCHANGED lockVars /\ UNCHANGED cropVars

\* except Exception: try: release() except: pass; raise  (the Future keeps
\* the exception)
ExceptRelease(w) ==
    /\ sem' = SemRelease(sem)
    /\ future' = [future EXCEPT ![wjob[w]].state = "raised"]
    /\ pc' = [pc EXCEPT ![w] = "idle"]
    /\ wjob' = [wjob EXCEPT ![w] = NoJob]
    /\ wpatches' = [wpatches EXCEPT ![w] = <<>>]
    /\ wtask' = [wtask EXCEPT ![w] = 0]
    /\ UNCHANGED <<released, task_map, jobs, tracker, created, hook>>
    /\ UNCHANGED hcVars /\ UNCHANGED cbVars
    /\ UNCHANGED lockVars /\ UNCHANGED cropVars

RjExcept(w) ==
    /\ pc[w] = "rj_except"
    /\ ExceptRelease(w)

(* ------------------ Dispatcher: run_batch_job -------------------------- *)
\* start_batch_job -> run_batch_job: job_id = _start_tracker(expected=1)
StartBatch(w) ==
    /\ TakesWork(pc, w)
    /\ CanSubmit
    /\ LET j == FreshJob
       IN  /\ StartTracker(j, 1)
           /\ future' = future @@ (j :> [kind |-> "batch", state |-> "running"])
           /\ wjob' = [wjob EXCEPT ![w] = j]
    /\ pc' = [pc EXCEPT ![w] = "rb_crop"]
    /\ UNCHANGED <<sem, released, task_map, created, wpatches, wtask>>
    /\ UNCHANGED hcVars /\ UNCHANGED cbVars
    /\ UNCHANGED lockVars /\ UNCHANGED cropVars

\* patches = crop_patches_aabb_from_paths(img, config, origin=coord_origin)
\* with coord_origin = "top-left"; n = len(patches)
RbCrop(w) ==
    /\ pc[w] = "rb_crop"
    /\ \E cfg \in Configs :
         wpatches' = [wpatches EXCEPT ![w] =
                        crop_patches_aabb_from_paths(cfg, "top-left")]
    /\ pc' = [pc EXCEPT ![w] = "rb_tracker"]
    /\ UNCHANGED <<sem, released, task_map, jobs, tracker, created, hook, future,
                   wjob, wtask>>
    /\ UNCHANGED hcVars /\ UNCHANGED cbVars
    /\ UNCHANGED lockVars /\ UNCHANGED cropVars

\* decode_image_from_path / parse_config_from_path raise (missing file,
\* undecodable image): run_batch_job raises before any acquire
RbCropRaise(w) ==
    /\ pc[w] = "rb_crop"
    /\ future' = [future EXCEPT ![wjob[w]].state = "raised"]
    /\ pc' = [pc EXCEPT ![w] = "idle"]
    /\ wjob' = [wjob EXCEPT ![w] = NoJob]
    /\ UNCHANGED <<sem, released, task_map, jobs, tracker, created, hook,
                   wpatches, wtask>>
    /\ UNCHANGED hcVars /\ UNCHANGED cbVars
    /\ UNCHANGED lockVars /\ UNCHANGED cropVars

\* the expected count the second _start_tracker call is given
BatchExpected(n) == n

\* self._start_tracker(expected=n): a second tracker under a fresh id that
\* is not kept; then `if n == 0: return {"job_id": job_id, "parts": []}`
RbTracker(w) ==
    /\ pc[w] = "rb_tracker"
    /\ LET n == Len(wpatches[w])
       IN  /\ StartTracker(FreshJob, BatchExpected(n))
           /\ IF n = 0
              THEN /\ future' = [future EXCEPT ![wjob[w]].state = "returned"]
                   /\ pc' = [pc EXCEPT ![w] = "idle"]
                   /\ wjob' = [wjob EXCEPT ![w] = NoJob]
              ELSE /\ pc' = [pc EXCEPT ![w] = "rb_acquire"]
                   /\ UNCHANGED <<future, wjob>>
    /\ UNCHANGED <<sem, released, task_map, created, wpatches, wtask>>
    /\ UNCHANGED hcVars /\ UNCHANGED cbVars
    /\ UNCHANGED lockVars /\ UNCHANGED cropVars

\* RbAcquire with an acquire() that does not wait for capacity
RbAcquire_NoWait(w) ==
    /\ pc[w] = "rb_acquire"
    /\ sem' = sem - 1
    /\ pc' = [pc EXCEPT ![w] = "rb_call"]
    /\ UNCHANGED <<released, task_map, jobs, tracker, created, hook, future,
                   wjob, wpatches, wtask>>
    /\ UNCHANGED hcVars /\ UNCHANGED cbVars
    /\ UNCHANGED lockVars /\ UNCHANGED cropVars

\* for p in patches: self.inflight_sem.acquire()
RbAcquire(w) ==
    /\ pc[w] = "rb_acquire"
    /\ sem > 0
    /\ sem' = sem - 1
    /\ pc' = [pc EXCEPT ![w] = "rb_call"]
    /\ UNCHANGED <<released, task_map, jobs, tracker, created, hook, future,
                   wjob, wpatches, wtask>>
    /\ UNCHANGED hcVars /\ UNCHANGED cbVars
    /\ UNCHANGED lockVars /\ UNCHANGED cropVars

\* task = self.ai.run_batch_task(...): upload and create succeed, the remote
\* service has created the task and may call back from now on
RbRunBatchTaskOk(w) ==
    /\ pc[w] = "rb_call"
    /\ Cardinality(DOMAIN created) < MaxTasks
    /\ LET t == Cardinality(DOMAIN created) + 1
       IN  /\ created' = created @@ (t :> [job |-> wjob[w],
                                           part |-> Head(wpatches[w]).part_id])
           /\ wtask' = [wtask EXCEPT ![w] = t]
    /\ pc' = [pc EXCEPT ![w] = "rb_meta"]
    /\ UNCHANGED <<sem, released, task_map, jobs, tracker, hook, future,
                   wjob, wpatches>>
    /\ UNCHANGED hcVars /\ UNCHANGED cbVars
    /\ UNCHANGED lockVars /\ UNCHANGED cropVars

\* run_batch_task raises (transport error, HTTP status, missing key)
RbRunBatchTaskRaise(w) ==
    /\ pc[w] = "rb_call"
    /\ pc' = [pc EXCEPT ![w] = "rb_except"]
    /\ UNCHANGED <<sem, released, task_map, jobs, tracker, created, hook, future,
                   wjob, wpatches, wtask>>
    /\ UNCHANGED hcVars /\ UNCHANGED cbVars
    /\ UNCHANGED lockVars /\ UNCHANGED cropVars

\* TaskMeta(task_id=task, output=out, part_id=..., feather=True): TaskMeta
\* has no field part_id and job_id is missing: TypeError inside
\* `with self._lock:`, before the assignment to self.task_map[task]
RbMeta(w) ==
    /\ pc[w] = "rb_meta"
    /\ pc' = [pc EXCEPT ![w] = "rb_except"]
    /\ UNCHANGED <<sem, released, task_map, jobs, tracker, created, hook, future,
                   wjob, wpatches, wtask>>
    /\ UNCHANGED hcVars /\ UNCHANGED cbVars
    /\ UNCHANGED lockVars /\ UNCHANGED cropVars

RbExcept(w) ==
    /\ pc[w] = "rb_except"
    /\ ExceptRelease(w)

(* ------------------- Callback Handler: on_callback --------------------- *)
\* NeedsRelease without the _released set: every delivery releases
NeedsRelease_EveryDelivery(t) == t /= EmptyTask

\* `if task_id not in self._released` (under self._lock)
NeedsRelease(t) == t /= EmptyTask /\ t \notin released

\* on_callback(payload) with payload.taskId = t, called from the HTTP
\* handler (one call at a time: the handler is a coroutine that does not
\* await inside). The release does not depend on meta. The call then raises
\* at self.callback_exec (AttributeError): nothing is handed to a pool.
OnCallback(t) ==
    /\ t = EmptyTask \/ t = StrayTask \/ t \in DOMAIN created
    /\ IF NeedsRelease(t)
       THEN /\ released' = released \cup {t}
            /\ sem' = SemRelease(sem)
            /\ relCalls' = [relCalls EXCEPT ![t] = @ + 1]
            /\ UNCHANGED redelivered
       ELSE /\ redelivered' = redelivered \cup ({t} \ {EmptyTask})
            /\ UNCHANGED <<released, sem, relCalls>>
    /\ cbLast' = "AttributeError"
    /\ UNCHANGED <<task_map, jobs, tracker, created, hook, future>>
    /\ UNCHANGED subVars /\ UNCHANGED cbVars
    /\ UNCHANGED lockVars /\ UNCHANGED cropVars

(* ------------------ Callback Handler: _run_callback -------------------- *)
\* the shapes of payload that _run_callback tells apart:
\*   "ok"      eventData.code == 0 and eventData.data.fileUrl present
\*   "fail"    eventData.code != 0
\*   "noEvent" no eventData
\*   "noData"  eventData.code == 0 without data
Payloads == {"ok", "fail", "noEvent", "noData"}

\* _run_callback is left (return or exception): the thread is idle again
Finish(c) ==
    /\ cpc' = [cpc EXCEPT ![c] = "idle"]
    /\ cmeta' = [cmeta EXCEPT ![c] = NoMeta]
    /\ cpay' = [cpay EXCEPT ![c] = "none"]

\* _run_callback(payload, None): `if not meta: return`
CbNoMeta(c) ==
    /\ TakesWork(cpc, c)
    /\ UNCHANGED vars

\* _run_callback(payload, meta) entered on a callback pool thread with the
\* TaskMeta of the created task t: job_id, task_id, out, feather are read
CbStart(c, t) ==
    /\ TakesWork(cpc, c)
    /\ t \in DOMAIN created
    /\ \E pay \in Payloads : cpay' = [cpay EXCEPT ![c] = pay]
    /\ cmeta' = [cmeta EXCEPT ![c] = [task_id |-> t, job_id |-> created[t].job]]
    /\ cpc' = [cpc EXCEPT ![c] = "cb_pop"]
    /\ UNCHANGED <<sem, released, task_map, jobs, tracker, created, hook, future>>
    /\ UNCHANGED subVars /\ UNCHANGED hcVars
    /\ UNCHANGED lockVars /\ UNCHANGED cropVars
    /\ UNCHANGED <<downloaded, deduped>>

\* what the inspection of eventData at lines 154-159 leads to
Inspect(pay) ==
    CASE pay = "noEvent" -> "return"
      [] pay = "fail"    -> "return"
      [] pay = "noData"  -> "raise"
      [] OTHER           -> "download"

\* with self._lock: self.task_map.pop(task_id, None); then eventData is
\* inspected: no eventData or code != 0 returns, a missing data raises
\* AttributeError on None.get, otherwise url is read
CbInspect(c) ==
    /\ cpc[c] = "cb_pop"
    /\ task_map' = [t \in DOMAIN task_map \ {cmeta[c].task_id} |-> task_map[t]]
    /\ IF Inspect(cpay[c]) = "download"
       THEN /\ cpc' = [cpc EXCEPT ![c] = "cb_download"]
            /\ UNCHANGED <<cmeta, cpay>>
       ELSE Finish(c)
    /\ UNCHANGED <<sem, released, jobs, tracker, created, hook, future>>
    /\ UNCHANGED subVars /\ UNCHANGED hcVars
    /\ UNCHANGED lockVars /\ UNCHANGED cropVars
    /\ UNCHANGED <<downloaded, deduped>>

\* download_from_callback(url) raises (it reads self.timeout, which AIClient
\* never sets); the except clause prints; save_image(piece, ...) then reads
\* the unbound local `piece`: UnboundLocalError leaves _run_callback
CbDownloadRaise(c) ==
    /\ cpc[c] = "cb_download"
    /\ downloaded' = downloaded \cup {cmeta[c].task_id}
    /\ Finish(c)
    /\ UNCHANGED <<sem, released, task_map, jobs, tracker, created, hook, future>>
    /\ UNCHANGED subVars /\ UNCHANGED hcVars
    /\ UNCHANGED lockVars /\ UNCHANGED cropVars
    /\ UNCHANGED deduped

(* ------- _run_callback past the download (stubbed collaborators) ------- *)
\* download_from_callback returns the bytes
CbDownloadOk(c) ==
    /\ cpc[c] = "cb_download"
    /\ downloaded' = downloaded \cup {cmeta[c].task_id}
    /\ cpc' = [cpc EXCEPT ![c] = "cb_save"]
    /\ UNCHANGED <<sem, released, task_map, jobs, tracker, created, hook, future>>
    /\ UNCHANGED subVars /\ UNCHANGED hcVars
    /\ UNCHANGED lockVars /\ UNCHANGED cropVars
    /\ UNCHANGED <<cmeta, cpay, deduped>>

\* save_image raises: the exception leaves _run_callback before step 2
CbSaveRaise(c) ==
    /\ cpc[c] = "cb_save"
    /\ Finish(c)
    /\ UNCHANGED <<sem, released, task_map, jobs, tracker, created, hook, future>>
    /\ UNCHANGED subVars /\ UNCHANGED hcVars
    /\ UNCHANGED lockVars /\ UNCHANGED cropVars
    /\ UNCHANGED <<downloaded, deduped>>

\* save_image returns
CbSaveOk(c) ==
    /\ cpc[c] = "cb_save"
    /\ cpc' = [cpc EXCEPT ![c] = "cb_get"]
    /\ UNCHANGED <<sem, released, task_map, jobs, tracker, created, hook, future>>
    /\ UNCHANGED subVars /\ UNCHANGED hcVars
    /\ UNCHANGED lockVars /\ UNCHANGED cropVars
    /\ UNCHANGED <<cmeta, cpay, downloaded, deduped>>

\* with self._lock: tracker = self.jobs.get(job_id); if not tracker: return
CbGetTracker(c) ==
    /\ cpc[c] = "cb_get"
    /\ IF cmeta[c].job_id \in jobs
       THEN /\ cpc' = [cpc EXCEPT ![c] = "cb_count"]
            /\ UNCHANGED <<cmeta, cpay>>
       ELSE Finish(c)
    /\ UNCHANGED <<sem, released, task_map, jobs, tracker, created, hook, future>>
    /\ UNCHANGED subVars /\ UNCHANGED hcVars
    /\ UNCHANGED lockVars /\ UNCHANGED cropVars
    /\ UNCHANGED <<downloaded, deduped>>

\* SeenBefore without the parts_seen test: no deduplication
SeenBefore_Never(tr, t) == FALSE

\* `task_id in tracker.parts_seen`: the callback was counted before
SeenBefore(tr, t) == t \in tr.parts_seen

\* Count without tracker.parts_seen.add(task_id)
Count_NoRecord(tr, t) == [tr EXCEPT !.done = @ + 1]

\* tracker.parts_seen.add(task_id); tracker.done += 1
Count(tr, t) == [tr EXCEPT !.parts_seen = @ \cup {t}, !.done = @ + 1]

\* with tracker.lock: a seen task_id returns; otherwise it is added to
\* parts_seen, done += 1, and done, expected are copied. Outside the lock
\* `if done >= expected` leads to the pop, else the function ends
CbCount(c) ==
    /\ cpc[c] = "cb_count"
    /\ LET j == cmeta[c].job_id
           t == cmeta[c].task_id
           tr == tracker[j]
       IN  IF SeenBefore(tr, t)
           THEN /\ deduped' = deduped \cup {t}
                /\ Finish(c)
                /\ UNCHANGED tracker
           ELSE /\ tracker' = [tracker EXCEPT ![j] = Count(tr, t)]
                /\ UNCHANGED deduped
                /\ IF Count(tr, t).done >= tr.expected
                   THEN /\ cpc' = [cpc EXCEPT ![c] = "cb_popjob"]
                        /\ UNCHANGED <<cmeta, cpay>>
                   ELSE Finish(c)
    /\ UNCHANGED <<sem, released, task_map, jobs, created, hook, future>>
    /\ UNCHANGED subVars /\ UNCHANGED hcVars
    /\ UNCHANGED lockVars /\ UNCHANGED cropVars
    /\ UNCHANGED downloaded

\* with self._lock: t2 = self.jobs.pop(job_id, None); `if t2 is not None`
\* leads to the hook, which is called outside the lock
CbPopJob(c) ==
    /\ cpc[c] = "cb_popjob"
    /\ jobs' = jobs \ {cmeta[c].job_id}
    /\ IF cmeta[c].job_id \in jobs
       THEN /\ cpc' = [cpc EXCEPT ![c] = "cb_hook"]
            /\ UNCHANGED <<cmeta, cpay>>
       ELSE Finish(c)
    /\ UNCHANGED <<sem, released, task_map, tracker, created, hook, future>>
    /\ UNCHANGED subVars /\ UNCHANGED hcVars
    /\ UNCHANGED lockVars /\ UNCHANGED cropVars
    /\ UNCHANGED <<downloaded, deduped>>

\* self._on_job_complete(job_id, t2); an exception of the hook is printed
CbHook(c) ==
    /\ cpc[c] = "cb_hook"
    /\ hook' = [hook EXCEPT ![cmeta[c].job_id] = @ + 1]
    /\ Finish(c)
    /\ UNCHANGED <<sem, released, task_map, jobs, tracker, created, future>>
    /\ UNCHANGED subVars /\ UNCHANGED hcVars
    /\ UNCHANGED lockVars /\ UNCHANGED cropVars
    /\ UNCHANGED <<downloaded, deduped>>

(* ----------------------------- Spec ------------------------------------ *)
Submit(w) ==
    \/ StartJob(w) \/ RjAcquire(w) \/ RjRunTask(w) \/ RjExcept(w)
    \/ StartBatch(w) \/ RbCrop(w) \/ RbCropRaise(w) \/ RbTracker(w)
    \/ RbAcquire(w) \/ RbRunBatchTaskOk(w) \/ RbRunBatchTaskRaise(w)
    \/ RbMeta(w) \/ RbExcept(w)

Callback(c) ==
    \/ CbNoMeta(c)
    \/ \E t \in TaskIds : CbStart(c, t)
    \/ CbInspect(c)
    \/ CbDownloadRaise(c)

Next ==
    \/ \E w \in Workers : Submit(w)
    \/ \E t \in CallbackIds : OnCallback(t)
    \/ \E c \in CbWorkers : Callback(c)

Spec == Init /\ [][Next]_vars


CallbackStub(c) ==
    \/ CbDownloadOk(c) \/ CbSaveRaise(c) \/ CbSaveOk(c)
    \/ CbGetTracker(c) \/ CbCount(c) \/ CbPopJob(c) \/ CbHook(c)

NextStub ==
    \/ Next
    \/ \E c \in CbWorkers : CallbackStub(c)

SpecStub == Init /\ [][NextStub]_vars


\* the steps a submit_pool thread takes by itself once run_job or
\* run_batch_job is running on it
RunsOn(w) ==
    \/ RjAcquire(w) \/ RjRunTask(w) \/ RjExcept(w)
    \/ RbCrop(w) \/ RbCropRaise(w) \/ RbTracker(w)
    \/ RbAcquire(w) \/ RbRunBatchTaskOk(w) \/ RbRunBatchTaskRaise(w)
    \/ RbMeta(w) \/ RbExcept(w)

\* what the routes of app.py set off: /test and /testbatch submit jobs to
\* submit_pool, /rhcallback calls on_callback (which never reaches
\* _run_callback, see OnCallback)
NextApp ==
    \/ \E w \in Workers : Submit(w)
    \/ \E t \in CallbackIds : OnCallback(t)

\* every submit_pool thread that can take a step eventually takes one (the
\* threads of a ThreadPoolExecutor are scheduled by the OS); submissions
\* and callback deliveries come from outside and are not forced
Fairness == \A w \in Workers : WF_vars(RunsOn(w))

SpecFair == Init /\ [][NextApp]_vars /\ Fairness


(* ------------------------- lock protocol ------------------------------- *)
\* The locks and the semaphore as a thread meets them, handler by handler,
\* in source order:
\*   "lock" / "unlock"      entering / leaving `with self._lock:`
\*   "tlock" / "tunlock"    entering / leaving `with tracker.lock:`
\*   "acquire" / "release"  inflight_sem.acquire() / .release()
\*   "call"                 work outside any lock (remote call, download, save)
\* A path ends where the handler returns or where an exception leaves it (a
\* `with` block gives its lock back on the way out). The paths past a
\* statement that raises in every run are listed too, so that every `with`
\* of the text is walked.

\* _start_tracker: with self._lock: ... return job
StartTrackerOps == <<"lock", "unlock">>

\* run_job: tracker, acquire, run_task; then the except clause's release,
\* or the TaskMeta registration under _lock (with or without an exception
\* inside the block)
RunJobPaths ==
    { StartTrackerOps \o <<"acquire", "call", "release">>,
      StartTrackerOps \o <<"acquire", "call", "lock", "unlock">>,
      StartTrackerOps \o <<"acquire", "call", "lock", "unlock", "release">> }

\* one pass of the loop `for p in patches`, ending in the registration
PatchOps == <<"acquire", "call", "lock", "unlock">>

\* run_batch_job: two _start_tracker calls (the extraction between them may
\* raise), `if n == 0: return`, then the loop, which an exception leaves
\* through the except clause's release
RunBatchJobPaths ==
    { StartTrackerOps,
      StartTrackerOps \o StartTrackerOps,
      StartTrackerOps \o StartTrackerOps \o <<"acquire", "call", "release">>,
      StartTrackerOps \o StartTrackerOps \o PatchOps \o <<"release">>,
      StartTrackerOps \o StartTrackerOps \o PatchOps \o PatchOps,
      StartTrackerOps \o StartTrackerOps \o PatchOps
          \o <<"acquire", "call", "release">> }

\* on_callback with a task id: under _lock the first delivery releases, a
\* later one does not (an empty id takes no lock)
OnCallbackPaths ==
    { <<"lock", "release", "unlock">>,
      <<"lock", "unlock">> }

\* _run_callback with a meta: pop under _lock; download and save; jobs.get
\* under _lock; the count under tracker.lock; jobs.pop under _lock
RunCallbackPaths_Nested ==
    { <<"lock", "unlock", "call", "lock", "tlock", "unlock", "tunlock">> }

RunCallbackPaths ==
    { <<"lock", "unlock">>,
      <<"lock", "unlock", "call">>,
      <<"lock", "unlock", "call", "lock", "unlock">>,
      <<"lock", "unlock", "call", "lock", "unlock", "tlock", "tunlock">>,
      <<"lock", "unlock", "call", "lock", "unlock", "tlock", "tunlock",
        "lock", "unlock">> }

Paths == RunJobPaths \cup RunBatchJobPaths \cup OnCallbackPaths
            \cup RunCallbackPaths

\* the operation thread th is at ("none": th runs no handler)
NextOp(th) == IF lth[th] = <<>> THEN "none" ELSE Head(lth[th])

Advance(th) == lth' = [lth EXCEPT ![th] = Tail(@)]

\* a handler is entered on thread th
Enter(th) ==
    /\ lth[th] = <<>>
    /\ \E path \in Paths : lth' = [lth EXCEPT ![th] = path]
    /\ UNCHANGED <<sem, lock, tracker_lock>>
    /\ UNCHANGED engineVars /\ UNCHANGED cropVars

\* `with self._lock:` is entered: threading.Lock.acquire() waits until the
\* lock is free
WithLock(th) ==
    /\ NextOp(th) = "lock"
    /\ lock = 0
    /\ lock' = th
    /\ Advance(th)
    /\ UNCHANGED <<sem, tracker_lock>>
    /\ UNCHANGED engineVars /\ UNCHANGED cropVars

\* the `with self._lock:` block is left
EndWithLock(th) ==
    /\ NextOp(th) = "unlock"
    /\ lock' = 0
    /\ Advance(th)
    /\ UNCHANGED <<sem, tracker_lock>>
    /\ UNCHANGED engineVars /\ UNCHANGED cropVars

\* `with tracker.lock:` is entered
WithTrackerLock(th) ==
    /\ NextOp(th) = "tlock"
    /\ tracker_lock = 0
    /\ tracker_lock' = th
    /\ Advance(th)
    /\ UNCHANGED <<sem, lock>>
    /\ UNCHANGED engineVars /\ UNCHANGED cropVars

\* the `with tracker.lock:` block is left
EndWithTrackerLock(th) ==
    /\ NextOp(th) = "tunlock"
    /\ tracker_lock' = 0
    /\ Advance(th)
    /\ UNCHANGED <<sem, lock>>
    /\ UNCHANGED engineVars /\ UNCHANGED cropVars

\* self.inflight_sem.acquire()
SemAcquire(th) ==
    /\ NextOp(th) = "acquire"
    /\ sem > 0
    /\ sem' = sem - 1
    /\ Advance(th)
    /\ UNCHANGED <<lock, tracker_lock>>
    /\ UNCHANGED engineVars /\ UNCHANGED cropVars

\* try: self.inflight_sem.release() / except Exception: pass
SemReleaseOp(th) ==
    /\ NextOp(th) = "release"
    /\ sem' = SemRelease(sem)
    /\ Advance(th)
    /\ UNCHANGED <<lock, tracker_lock>>
    /\ UNCHANGED engineVars /\ UNCHANGED cropVars

\* the remote call, the download and the save: no lock, no semaphore
Work(th) ==
    /\ NextOp(th) = "call"
    /\ Advance(th)
    /\ UNCHANGED <<sem, lock, tracker_lock>>
    /\ UNCHANGED engineVars /\ UNCHANGED cropVars

NextLocks ==
    \E th \in LockThreads :
        \/ Enter(th)
        \/ WithLock(th) \/ EndWithLock(th)
        \/ WithTrackerLock(th) \/ EndWithTrackerLock(th)
        \/ SemAcquire(th) \/ SemReleaseOp(th)
        \/ Work(th)

SpecLocks == Init /\ [][NextLocks]_vars


(* ----------------- the patch extractor by itself ----------------------- *)
\* coordinates a config may carry, as numerators over Denom: below 0.0,
\* inside the image, beyond 1.0
Coords == {-1, Denom \div 2, Denom + Denom \div 2}

\* the four corners of the rectangle [x1, x2] x [y1, y2]
Rect(x1, x2, y1, y2) == <<Pt(x1, y1), Pt(x2, y1), Pt(x2, y2), Pt(x1, y2)>>

\* the "points" a region may carry: four corners (listed from either side
\* in x), three points, none
Regions ==
    {Rect(c[1], c[2], c[3], c[4]) :
        c \in {d \in Coords \X Coords \X Coords \X Coords : d[3] <= d[4]}}
        \cup {RegionShort, <<>>}

\* the "differences" arrays of up to MaxRegions regions
DiffsOfLen(n) == [1..n -> Regions]
CropInputs ==
    [diffs : UNION {DiffsOfLen(n) : n \in 0..MaxRegions},
     origin : {"top-left", "bottom-left"}]

InitCrop ==
    /\ EngineInit
    /\ config \in CropInputs
    /\ patches = NotCalled

\* patches = crop_patches_aabb_from_paths(img, config, origin)
CropCall ==
    /\ ~patches.called
    /\ patches' = [called |-> TRUE,
                   out |-> crop_patches_aabb_from_paths(config.diffs,
                                                        config.origin)]
    /\ UNCHANGED config
    /\ UNCHANGED sem /\ UNCHANGED engineVars /\ UNCHANGED lockVars

NextCrop == CropCall

SpecCrop == InitCrop /\ [][NextCrop]_vars


(* ============================ claims =================================== *)
\* a submit worker whose acquire() has returned and whose remote call
\* (run_task / run_batch_task) is in progress
InRemoteCall(w) == pc[w] \in {"rj_call", "rb_call"}

\* admission grants outstanding: remote calls in progress, and registered
\* tasks whose first callback has not released yet
Outstanding ==
    Cardinality({w \in Workers : InRemoteCall(w)})
    + Cardinality({t \in DOMAIN task_map : t \notin released})

\* C1: in every reachable state the number of outstanding admission grants
\* is at most the configured capacity max_inflight.
C1_GrantsWithinCapacity == Outstanding <= MaxInflight


\* C2: for every task id, the callback path calls release() at most once,
\* however many times on_callback is invoked with that taskId.
C2_ReleaseAtMostOncePerTask == \A t \in CallbackIds : relCalls[t] <= 1

\* a created task whose callback was delivered again after its release
C2_Witness == \E t \in DOMAIN created : relCalls[t] = 1 /\ t \in redelivered

Settled(t) == \A c \in CbWorkers : cmeta[c].task_id /= t

\* C4: the completion hook is invoked exactly once per job: never twice,
\* and once the callback of a job's only task (code 0, file URL present) has
\* been processed, so that done reaches expected, it has been invoked.
C4_HookExactlyOnce ==
    /\ \A j \in DOMAIN hook : hook[j] <= 1
    /\ \A t \in DOMAIN created :
         (t \in downloaded /\ Settled(t)) => hook[created[t].job] = 1

\* C5: a callback counts once: done is the number of distinct task ids
\* counted, so a second delivery of a counted task's callback leaves done
\* as the first delivery left it.
C5_CountingIdempotent ==
    \A j \in DOMAIN tracker :
        tracker[j].done = Cardinality(tracker[j].parts_seen)

\* a second delivery was recognised as a duplicate and the job's done is
\* still 1
C5_Witness ==
    \E t \in deduped :
        /\ tracker[created[t].job].done = 1
        /\ t \in tracker[created[t].job].parts_seen

\* a batch worker inside its dispatch loop
InBatchLoop(w) == pc[w] \in {"rb_acquire", "rb_call", "rb_meta", "rb_except"}

\* C6: while the patches of a batch job are dispatched, the expected count
\* of the job's own registry entry is the number of patches the extractor
\* produced.
C6_ExpectedIsPatchCount ==
    \A w \in Workers :
        InBatchLoop(w) => tracker[wjob[w]].expected = Len(wpatches[w])

\* C7: a batch submission that yields zero patches (the only one to return
\* normally) is finalized at once: the hook has fired once for it and its
\* entry is no longer in the job registry.
C7_ZeroPatchesFinalized ==
    \A j \in DOMAIN future :
        future[j].state = "returned" => (hook[j] = 1 /\ j \notin jobs)

\* C8: when _run_callback ends for a known task whose payload has a
\* non-zero code or no eventData, the part has been counted for its job.
C8_FailedPartCounted ==
    [][\A c \in CbWorkers :
         (cpc[c] = "cb_pop" /\ cpay[c] \in {"fail", "noEvent"} /\ cpc'[c] = "idle")
            => cmeta[c].task_id \in tracker'[cmeta[c].job_id].parts_seen]_vars

\* C9: when the download (or the save) fails in _run_callback, the part has
\* still been counted for its job when the function is left.
C9_IoFailurePartCounted ==
    [][\A c \in CbWorkers :
         (cpc[c] = "cb_download" /\ cpc'[c] = "idle")
            => cmeta[c].task_id \in tracker'[cmeta[c].job_id].parts_seen]_vars

\* C10: a worker whose task creation failed after acquire() gives back
\* exactly one unit of capacity, leaves no TaskMeta of the attempt and its
\* error reaches the submission pool (the future holds the exception).
C10_FailureReleasesOneUnit ==
    [][\A w \in Workers :
         (pc[w] \in {"rj_except", "rb_except"} /\ pc'[w] = "idle")
            => /\ sem' = sem + 1
               /\ wtask[w] \notin DOMAIN task_map'
               /\ future'[wjob[w]].state = "raised"]_vars

\* C11: a failure while one patch of a batch job is dispatched does not end
\* the dispatch loop: the worker leaves its except clause for the next patch
\* when patches remain, and the job's expected count goes down by the
\* failed patch.
C11_PatchFailureKeepsDispatching ==
    [][\A w \in Workers :
         (pc[w] = "rb_except" /\ pc'[w] /= "rb_except")
            => /\ Len(wpatches[w]) > 1 => pc'[w] = "rb_acquire"
               /\ tracker'[wjob[w]].expected = tracker[wjob[w]].expected - 1]_vars

\* C12: on_callback with a task id that has no entry in task_map changes
\* nothing: no capacity is released, and _released, task_map, the trackers
\* (done, parts_seen) and the hook count are as before.
C12_UnknownCallbackNoChange ==
    [][\A t \in CallbackIds :
         (t /= EmptyTask /\ t \notin DOMAIN task_map /\ OnCallback(t))
            => UNCHANGED <<sem, released, task_map, tracker, hook>>]_vars

\* C13: from the moment its remote task has been created a task id has a
\* TaskMeta entry in task_map: the step in which the remote create call
\* returns the id leaves the entry present, so a callback delivered right
\* after it finds the entry.
C13_MetaPresentFromCreation ==
    [][\A t \in TaskIds :
         (t \notin DOMAIN created /\ t \in DOMAIN created')
            => t \in DOMAIN task_map']_vars

\* C14: liveness. Once the callback of a job's dispatched task has been
\* delivered, the job eventually completes: the completion hook has fired
\* for its job id.
C14_JobEventuallyCompletes ==
    \A t \in TaskIds :
        (t \in DOMAIN created /\ t \in released)
            ~> (t \in DOMAIN created /\ hook[created[t].job] = 1)

\* a submit worker whose acquire() has not returned yet
AtAcquire(w) == pc[w] \in {"rj_acquire", "rb_acquire"}

HoldsLock(th) == lock = th
HoldsTrackerLock(th) == tracker_lock = th

\* thread th cannot take its next step: the lock it asks for is held, or
\* the semaphore has no unit
Blocked(th) ==
    \/ NextOp(th) = "lock" /\ lock /= 0
    \/ NextOp(th) = "tlock" /\ tracker_lock /= 0
    \/ NextOp(th) = "acquire" /\ sem = 0

\* C17: no thread is inside self._lock and a tracker.lock at once (nor asks
\* for one of them while inside the other); no thread calls
\* inflight_sem.acquire() while inside either; hence a thread inside a lock
\* is never blocked and the locks cannot deadlock.
C17_LocksNeverNested ==
    \A th \in LockThreads :
        /\ ~(HoldsLock(th) /\ HoldsTrackerLock(th))
        /\ HoldsLock(th) => NextOp(th) \notin {"lock", "tlock", "acquire"}
        /\ HoldsTrackerLock(th) => NextOp(th) \notin {"lock", "tlock", "acquire"}
        /\ (HoldsLock(th) \/ HoldsTrackerLock(th)) => ~Blocked(th)

\* one thread is inside tracker.lock while another, inside self._lock, is
\* about to leave it
C17_Witness ==
    \E a, b \in LockThreads :
        /\ a /= b
        /\ HoldsTrackerLock(a)
        /\ HoldsLock(b) /\ NextOp(b) = "unlock"

\* the patches returned for region i (1-based position in diffs)
PatchesOf(i) ==
    {k \in 1..Len(patches.out) : patches.out[k].part_id = Str(i - 1)}

\* C18: every patch crop_patches_aabb_from_paths returns has
\* 0 <= x_min < x_max <= W and 0 <= y_min < y_max <= H; a region with
\* fewer than 4 points or with an empty box yields no patch; any other
\* region yields at most one, which carries that region's box under the
\* part_id str(index of the region in the config); the patches keep the
\* config's order.
C18_PatchesWithinImage ==
    patches.called =>
        /\ \A k \in 1..Len(patches.out) :
             LET b == patches.out[k].bbox
             IN  /\ 0 <= b.x_min /\ b.x_min < b.x_max /\ b.x_max <= ImgW
                 /\ 0 <= b.y_min /\ b.y_min < b.y_max /\ b.y_max <= ImgH
                 /\ \E i \in 1..Len(config.diffs) : k \in PatchesOf(i)
        /\ \A i \in 1..Len(config.diffs) :
             IF Len(config.diffs[i]) < 4
             THEN PatchesOf(i) = {}
             ELSE LET b == BBox(config.diffs[i], config.origin)
                  IN  IF Degenerate(b)
                      THEN PatchesOf(i) = {}
                      ELSE /\ Cardinality(PatchesOf(i)) <= 1
                           /\ \A k \in PatchesOf(i) : patches.out[k].bbox = b
        /\ \A i, j \in 1..Len(config.diffs) :
             \A k \in PatchesOf(i), l \in PatchesOf(j) : i < j => k < l

\* a config whose first region is skipped (fewer than 4 points) and whose
\* second reaches beyond the image on both sides: one patch, part_id "1",
\* cut back to the image
C18_Witness ==
    /\ patches.called
    /\ Len(config.diffs) = 2
    /\ Len(config.diffs[1]) = 3
    /\ Len(config.diffs[2]) = 4
    /\ \E p, q \in 1..4 : config.diffs[2][p].x < 0 /\ config.diffs[2][q].x > Denom
    /\ Len(patches.out) = 1
    /\ patches.out[1].part_id = <<"1">>
    /\ patches.out[1].bbox.x_min = 0
    /\ patches.out[1].bbox.x_max = ImgW

\* C19: the job registry holds one entry per submission, under that
\* submission's job id: every id ever entered into self.jobs is the job id
\* of a submission, so there are as many entries made as submissions.
C19_OneEntryPerSubmission ==
    /\ jobs \subseteq DOMAIN future
    /\ DOMAIN tracker = DOMAIN future

\* C20: on_callback with a missing or empty taskId is a no-op: the call
\* returns normally, no capacity is released, and task_map, _released, the
\* job registry, the trackers and the hook count are as before.
C20_EmptyTaskIdIsNoOp ==
    [][OnCallback(EmptyTask)
          => /\ cbLast' = "returned"
             /\ UNCHANGED <<sem, released, task_map, jobs, tracker, hook>>]_vars

====
